---------------------------- MODULE Spec2Model ----------------------------
(***************************************************************************)
(* Model of the navigation index (NavigationMap), the notebook template    *)
(* (NotebookTemplate) and the query builder (QueryBuilder) of              *)
(* MCPNotebookLM.                                                          *)
(*                                                                         *)
(* Strings are sequences of characters.  A character is a one-letter TLA+  *)
(* string; the fixed pieces of the f-strings of the source are kept as     *)
(* single atoms, which no input contains; the Russian text of those pieces  *)
(* is written in English, piece for piece.                                 *)
(* An Optional[...] value is a sequence of length at most one: None is     *)
(* <<>> and the value x is <<x>>.  Objects of class NavigationNode live in *)
(* a heap (navigation.nodes) and are referred to by their index, so that   *)
(* two nodes with equal fields stay two objects.                           *)
(***************************************************************************)
EXTENDS Naturals, Sequences, FiniteSets, TLC

VARIABLES
    navigation,     \* NotebookTemplate.navigation : NavigationMap
    notebook_id,    \* NotebookTemplate.notebook_id : Optional[str]
    client_calls,   \* calls the last operation made on NotebookLMClient
    call,           \* the last operation invoked and its arguments
    ret             \* its outcome: status, returned string, returned nodes

vars == <<navigation, notebook_id, client_calls, call, ret>>

-----------------------------------------------------------------------------
(* Bounds and input sets *)

MaxSections == 2

None == <<>>

Some(x) == <<x>>

EmptyStr == <<>>

SectionIds == { <<"a">>, <<"a", "_", "b">> }

Titles == { <<"A">>, <<"A", " ", "b">> }

Descriptions == { EmptyStr, <<"d">> }

Keywords == { <<"k">>, <<"K">>, <<"j">> }

KeywordLists == { <<>>, << <<"k">> >>, << <<"K">>, <<"j">> >> }

ParentIds == { None } \cup { Some(s) : s \in SectionIds }

Questions == { <<"q">> }

\* questions of build_section_query: one that is a keyword of a section
HintQuestions == { <<"q">>, <<"K">> }

MaxTreeSections == 3

\* title, description and keywords of the sections of the hierarchy scenarios
TreeContents ==
    { [title |-> <<"A">>, description |-> EmptyStr, keywords |-> <<>>],
      [title |-> <<"A", " ", "b">>, description |-> <<"d">>,
       keywords |-> << <<"K">>, <<"j">> >>] }

MaxQuestionLength == 3

MaxTitleLength == 2

NoteChars == { "x", "y", " " }

\* the questions of notes: every string of at most MaxQuestionLength
\* characters
NoteQuestions ==
    UNION { [1..n -> NoteChars] : n \in 0..MaxQuestionLength }

\* Config values (note_prefix, note_max_title_length)
Configs ==
    { [note_prefix |-> p, note_max_title_length |-> n] :
        p \in { <<"N", ":">>, <<"M", " ", "n", ":">> },
        n \in 0..MaxTitleLength }

NotePrefixes == { None, Some(EmptyStr), Some(<<"X">>) }

Answers == { <<"r">> }

\* SourceMetadata values of the formatter: every combination of fields
FormatMetadatas ==
    { [ title |-> t, category |-> c, tags |-> g, description |-> d,
        source_type |-> y, priority |-> 5, related_sections |-> r ] :
        t \in Titles, c \in { <<"k">>, <<"j">> },
        g \in { <<>>, << <<"K">> >>, << <<"K">>, <<"k">> >> },
        d \in Descriptions, y \in { <<"documentation">>, <<"code">> },
        r \in { <<>>, << <<"a">> >>, << <<"a">>, <<"a", "_", "b">> >> } }

NotebookIds == { <<"n1">>, <<"n2">> }

Urls == { None, Some(EmptyStr), Some(<<"u">>) }

Texts == { None, Some(EmptyStr), Some(<<"t">>) }

OptSectionIds == { None, Some(EmptyStr), Some(<<"a">>) }

\* SourceMetadata values (title, category, tags, description, source_type,
\* priority, related_sections)
Metadatas ==
    { [ title |-> <<"A", " ", "b">>, category |-> <<"k">>, tags |-> <<>>,
        description |-> EmptyStr, source_type |-> <<"documentation">>,
        priority |-> 5, related_sections |-> <<>> ],
      [ title |-> <<"A">>, category |-> <<"j">>, tags |-> << <<"K">>, <<"k">> >>,
        description |-> <<"d">>, source_type |-> <<"code">>,
        priority |-> 5, related_sections |-> << <<"a", "_", "b">> >> ] }

\* what a call of the client can do: raise, return None, or return a dict
ClientResults ==
    { [kind |-> "raise", dict |-> <<>>],
      [kind |-> "none", dict |-> <<>>],
      [kind |-> "dict", dict |-> [k \in {"sourceId"} |-> <<"s1">>]],
      [kind |-> "dict", dict |-> [k \in {"id"} |-> <<"i1">>]],
      [kind |-> "dict", dict |-> [k \in {"status"} |-> <<"ok">>]] }

\* what client.create_notebook can do: raise, return None, or a notebook
CreateResults ==
    { [kind |-> "raise", id |-> EmptyStr], [kind |-> "none", id |-> EmptyStr] }
    \cup { [kind |-> "notebook", id |-> n] : n \in NotebookIds }

SectionIdLists ==
    { <<>>, << <<"a">> >>, << <<"a", "_", "b">>, <<"a">> >>,
      << <<"a">>, <<"a", "_", "b">> >> }

-----------------------------------------------------------------------------
(* str methods *)

\* str.lower() on one character
LowerChar(c) ==
    CASE c = "A" -> "a"
      [] c = "B" -> "b"
      [] c = "K" -> "k"
      [] c = "J" -> "j"
      [] OTHER -> c

\* str.lower()
Lower(s) == [i \in 1..Len(s) |-> LowerChar(s[i])]

\* str.replace(" ", "_")
ReplaceSpaces(s) == [i \in 1..Len(s) |-> IF s[i] = " " THEN "_" ELSE s[i]]

RECURSIVE Join(_, _)
\* sep.join(strs)
Join(sep, strs) ==
    IF strs = <<>> THEN EmptyStr
    ELSE IF Len(strs) = 1 THEN strs[1]
    ELSE strs[1] \o sep \o Join(sep, Tail(strs))

\* bool(x) of an Optional[str]: None and "" are false
Truthy(opt) == opt # None /\ opt[1] # EmptyStr

-----------------------------------------------------------------------------
(* NavigationMap *)

\* NavigationMap.__init__
NavigationMapInit ==
    [ nodes |-> <<>>,
      root_nodes |-> <<>>,
      section_index |-> <<>>,
      keyword_index |-> <<>> ]

\* dict[key] = value
DictSet(d, key, value) ==
    [x \in (DOMAIN d) \cup {key} |-> IF x = key THEN value ELSE d[x]]

\* dict.get(key, default)
DictGet(d, key, default) == IF key \in DOMAIN d THEN d[key] ELSE default

RECURSIVE IndexKeywords(_, _, _)
\* the loop "for keyword in keywords" of add_section
IndexKeywords(keyword_index, keywords, section_id) ==
    IF keywords = <<>> THEN keyword_index
    ELSE LET kl == Lower(Head(keywords))
             ki == IF kl \notin DOMAIN keyword_index
                   THEN DictSet(keyword_index, kl, <<>>)
                   ELSE keyword_index
         IN IndexKeywords(DictSet(ki, kl, Append(ki[kl], section_id)),
                          Tail(keywords), section_id)

\* NavigationNode(...) as add_section constructs it
NavigationNode(section_id, title, description, keywords, metadata) ==
    [ section_id |-> section_id,
      title |-> title,
      description |-> description,
      keywords |-> keywords,
      children |-> <<>>,
      source_metadata |-> metadata ]

\* parent_id ignored: every node becomes a root
ParentFound_IgnoresParent(nav, parent_id) == FALSE

\* does "if parent_id: parent = section_index.get(parent_id); if parent:" hold
ParentFound(nav, parent_id) ==
    Truthy(parent_id) /\ parent_id[1] \in DOMAIN nav.section_index

\* the node registered in section_index only when it has no parent_id
add_section_RootsOnlyRegistered(nav, section_id, title, description, keywords, parent_id, metadata) ==
    LET node == Len(nav.nodes) + 1
        nodes1 == Append(nav.nodes,
                         NavigationNode(section_id, title, description,
                                        keywords, metadata))
        ki == IndexKeywords(nav.keyword_index, keywords, section_id)
        parent == IF ParentFound(nav, parent_id)
                  THEN nav.section_index[parent_id[1]] ELSE 0
        nodes2 == IF parent # 0
                  THEN [nodes1 EXCEPT ![parent].children = Append(@, node)]
                  ELSE nodes1
        roots == IF parent # 0 THEN nav.root_nodes
                 ELSE Append(nav.root_nodes, node)
    IN [ nodes |-> nodes2,
         root_nodes |-> roots,
         section_index |-> IF Truthy(parent_id) THEN nav.section_index
                           ELSE DictSet(nav.section_index, section_id, node),
         keyword_index |-> ki ]

\* "else" left out: a node with a parent is appended to root_nodes too
add_section_AlsoRoot(nav, section_id, title, description, keywords, parent_id, metadata) ==
    LET node == Len(nav.nodes) + 1
        nodes1 == Append(nav.nodes,
                         NavigationNode(section_id, title, description,
                                        keywords, metadata))
        ki == IndexKeywords(nav.keyword_index, keywords, section_id)
        parent == IF ParentFound(nav, parent_id)
                  THEN nav.section_index[parent_id[1]] ELSE 0
        nodes2 == IF parent # 0
                  THEN [nodes1 EXCEPT ![parent].children = Append(@, node)]
                  ELSE nodes1
    IN [ nodes |-> nodes2,
         root_nodes |-> Append(nav.root_nodes, node),
         section_index |-> DictSet(nav.section_index, section_id, node),
         keyword_index |-> ki ]

\* NavigationMap.add_section: the map after the call; the new node is the
\* last one of nodes
add_section(nav, section_id, title, description, keywords, parent_id, metadata) ==
    LET node == Len(nav.nodes) + 1
        nodes1 == Append(nav.nodes,
                         NavigationNode(section_id, title, description,
                                        keywords, metadata))
        ki == IndexKeywords(nav.keyword_index, keywords, section_id)
        parent == IF ParentFound(nav, parent_id)
                  THEN nav.section_index[parent_id[1]] ELSE 0
        nodes2 == IF parent # 0
                  THEN [nodes1 EXCEPT ![parent].children = Append(@, node)]
                  ELSE nodes1
        roots == IF parent # 0 THEN nav.root_nodes
                 ELSE Append(nav.root_nodes, node)
    IN [ nodes |-> nodes2,
         root_nodes |-> roots,
         section_index |-> DictSet(nav.section_index, section_id, node),
         keyword_index |-> ki ]

\* keeps the elements of ids that are keys of section_index
RECURSIVE Resolve(_, _)
Resolve(section_index, ids) ==
    IF ids = <<>> THEN <<>>
    ELSE IF Head(ids) \in DOMAIN section_index
         THEN <<section_index[Head(ids)]>> \o Resolve(section_index, Tail(ids))
         ELSE Resolve(section_index, Tail(ids))

\* NavigationMap.find_sections_by_keyword
find_sections_by_keyword(nav, keyword) ==
    LET keyword_lower == Lower(keyword)
        section_ids == DictGet(nav.keyword_index, keyword_lower, <<>>)
    IN Resolve(nav.section_index, section_ids)

\* NavigationMap.generate_navigation_query
generate_navigation_query(nav, topic) ==
    LET sections == find_sections_by_keyword(nav, topic)
    IN IF sections = <<>>
       THEN <<"Find information about ">> \o topic
       ELSE <<"In section '">> \o nav.nodes[sections[1]].title
            \o <<"' find information about ">> \o topic

-----------------------------------------------------------------------------
(* Outcomes *)

Ok(str, nodes) == [status |-> "ok", str |-> str, nodes |-> nodes]

Raised(exc) == [status |-> exc, str |-> EmptyStr, nodes |-> <<>>]

NoCall == [op |-> "none"]

-----------------------------------------------------------------------------
(* Operations on the navigation map *)

Init ==
    /\ navigation = NavigationMapInit
    /\ notebook_id = None
    /\ client_calls = <<>>
    /\ call = NoCall
    /\ ret = Ok(EmptyStr, <<>>)

AddSection ==
    /\ Len(navigation.nodes) < MaxSections
    /\ \E section_id \in SectionIds, title \in Titles,
          description \in Descriptions, keywords \in KeywordLists,
          parent_id \in ParentIds :
          /\ navigation' = add_section(navigation, section_id, title,
                                       description, keywords, parent_id, None)
          /\ call' = [op |-> "add_section", section_id |-> section_id,
                      title |-> title, description |-> description,
                      keywords |-> keywords, parent_id |-> parent_id]
          /\ ret' = Ok(EmptyStr, <<Len(navigation.nodes) + 1>>)
    /\ client_calls' = <<>>
    /\ UNCHANGED notebook_id

FindSectionsByKeyword ==
    /\ \E keyword \in Keywords :
          /\ call' = [op |-> "find_sections_by_keyword", keyword |-> keyword]
          /\ ret' = Ok(EmptyStr, find_sections_by_keyword(navigation, keyword))
    /\ client_calls' = <<>>
    /\ UNCHANGED <<navigation, notebook_id>>

GenerateNavigationQuery ==
    /\ \E topic \in Keywords :
          /\ call' = [op |-> "generate_navigation_query", topic |-> topic]
          /\ ret' = Ok(generate_navigation_query(navigation, topic), <<>>)
    /\ client_calls' = <<>>
    /\ UNCHANGED <<navigation, notebook_id>>

-----------------------------------------------------------------------------
(* QueryBuilder *)

RECURSIVE Titles_of(_, _)
\* [section_index[sid].title for sid in section_ids if sid in section_index]
Titles_of(nav, section_ids) ==
    IF section_ids = <<>> THEN <<>>
    ELSE IF Head(section_ids) \in DOMAIN nav.section_index
         THEN <<nav.nodes[nav.section_index[Head(section_ids)]].title>>
              \o Titles_of(nav, Tail(section_ids))
         ELSE Titles_of(nav, Tail(section_ids))

\* "if not section_titles: return question" left out
build_multi_section_query_NoEmptyCheck(nav, question, section_ids) ==
    LET section_titles == Titles_of(nav, section_ids)
        quoted == [i \in 1..Len(section_titles) |->
                      <<"'">> \o section_titles[i] \o <<"'">>]
    IN <<"In sections ">> \o Join(<<",", " ">>, quoted) \o <<" find: ">>
       \o question

\* QueryBuilder.build_multi_section_query
build_multi_section_query(nav, question, section_ids) ==
    LET section_titles == Titles_of(nav, section_ids)
        quoted == [i \in 1..Len(section_titles) |->
                      <<"'">> \o section_titles[i] \o <<"'">>]
        sections_str == Join(<<",", " ">>, quoted)
    IN IF section_titles = <<>> THEN question
       ELSE <<"In sections ">> \o sections_str \o <<" find: ">> \o question

BuildMultiSectionQuery ==
    /\ \E question \in Questions, section_ids \in SectionIdLists :
          /\ call' = [op |-> "build_multi_section_query",
                      question |-> question, section_ids |-> section_ids]
          /\ ret' = Ok(build_multi_section_query(navigation, question,
                                                 section_ids), <<>>)
    /\ client_calls' = <<>>
    /\ UNCHANGED <<navigation, notebook_id>>

\* use_section_hint ignored: the question is returned as it is
generate_optimized_query_NoHint(nav, question, use_section_hint) == question

\* NotebookTemplate.generate_optimized_query
generate_optimized_query(nav, question, use_section_hint) ==
    IF use_section_hint THEN generate_navigation_query(nav, question)
    ELSE question

\* QueryBuilder.build_section_query
build_section_query(nav, question, section_hint) ==
    IF Truthy(section_hint) /\ section_hint[1] \in DOMAIN nav.section_index
    THEN <<"In section '">>
         \o nav.nodes[nav.section_index[section_hint[1]]].title
         \o <<"' find: ">> \o question
    ELSE generate_optimized_query(nav, question, TRUE)

BuildSectionQuery ==
    /\ \E question \in HintQuestions, section_hint \in ParentIds :
          /\ call' = [op |-> "build_section_query", question |-> question,
                      section_hint |-> section_hint]
          /\ ret' = Ok(build_section_query(navigation, question,
                                           section_hint), <<>>)
    /\ client_calls' = <<>>
    /\ UNCHANGED <<navigation, notebook_id>>

NextHint ==
    \/ AddSection
    \/ BuildSectionQuery

SpecHint == Init /\ [][NextHint]_vars

NextNav ==
    \/ AddSection
    \/ FindSectionsByKeyword
    \/ GenerateNavigationQuery
    \/ BuildMultiSectionQuery

SpecNav == Init /\ [][NextNav]_vars

-----------------------------------------------------------------------------
(* NotebookTemplate *)

\* bool(d) of a dict
DictTruthy(r) == r.kind = "dict" /\ DOMAIN r.dict # {}

\* the slug without lower()
Slug_NoLower(title) == ReplaceSpaces(title)

\* title.lower().replace(" ", "_")
Slug(title) == ReplaceSpaces(Lower(title))

\* f"source_{metadata.title.lower().replace(' ', '_')}"
FallbackSourceId(metadata) == <<"source_">> \o Slug(metadata.title)

\* result.get('sourceId') or result.get('id') or f"source_..."
SourceIdOf(result, metadata) ==
    IF "sourceId" \in DOMAIN result.dict /\ result.dict["sourceId"] # EmptyStr
    THEN result.dict["sourceId"]
    ELSE IF "id" \in DOMAIN result.dict /\ result.dict["id"] # EmptyStr
         THEN result.dict["id"]
         ELSE FallbackSourceId(metadata)

\* the tags line emitted for an empty tag list too
format_metadata_prefix_AlwaysTags(metadata) ==
    LET lines ==
            << <<"# ">> \o metadata.title,
               <<"**Category:** ">> \o metadata.category,
               <<"**Type:** ">> \o metadata.source_type,
               <<"**Tags:** ">> \o Join(<<",", " ">>, metadata.tags) >>
            \o (IF metadata.description # EmptyStr
                THEN << <<"**Description:** ">> \o metadata.description >>
                ELSE <<>>)
            \o (IF metadata.related_sections # <<>>
                THEN << <<"**Related sections:** ">>
                        \o Join(<<",", " ">>, metadata.related_sections) >>
                ELSE <<>>)
            \o << <<"---", "\n">> >>
    IN Join(<<"\n">>, lines)

\* NotebookTemplate._format_metadata_prefix
format_metadata_prefix(metadata) ==
    LET lines ==
            << <<"# ">> \o metadata.title,
               <<"**Category:** ">> \o metadata.category,
               <<"**Type:** ">> \o metadata.source_type >>
            \o (IF metadata.tags # <<>>
                THEN << <<"**Tags:** ">> \o Join(<<",", " ">>, metadata.tags) >>
                ELSE <<>>)
            \o (IF metadata.description # EmptyStr
                THEN << <<"**Description:** ">> \o metadata.description >>
                ELSE <<>>)
            \o (IF metadata.related_sections # <<>>
                THEN << <<"**Related sections:** ">>
                        \o Join(<<",", " ">>, metadata.related_sections) >>
                ELSE <<>>)
            \o << <<"---", "\n">> >>
    IN Join(<<"\n">>, lines)

\* the title _add_index_source gives the description
IndexSourceTitle == <<"Notebook structure description">>

\* the calls on NotebookLMClient; notebook_id is passed as the template
\* holds it (an Optional[str])
TextCall(nid, text, title, result) ==
    [ method |-> "add_text_source", notebook_id |-> nid, content |-> text,
      title |-> title, result |-> result ]

UrlCall(nid, url, title, result) ==
    [ method |-> "add_url_source", notebook_id |-> nid, content |-> url,
      title |-> title, result |-> result ]

CreateCall(title, result) ==
    [ method |-> "create_notebook", notebook_id |-> None,
      content |-> EmptyStr, title |-> title, result |-> result ]

\* the check of the client's result left out
CreateFails_Never(notebook) == FALSE

\* "if not notebook: raise RuntimeError" of create_notebook
CreateFails(notebook) == notebook.kind = "none"

\* the exception re-raised as add_source_with_metadata does
IndexSourcePropagates_Reraised(result) == result.kind = "raise"

\* does an exception of client.add_text_source leave _add_index_source:
\* "except Exception" catches it and returns None
IndexSourcePropagates(result) == FALSE

\* NotebookTemplate._add_index_source: the calls it makes on the client
add_index_source(nid, content, result) ==
    IF ~Truthy(nid) THEN <<>>
    ELSE << TextCall(nid, content, IndexSourceTitle, result) >>

\* NotebookTemplate.create_notebook
CreateNotebook ==
    \E title \in Titles, description \in Descriptions,
       notebook \in CreateResults, result \in ClientResults :
       /\ call' = [op |-> "create_notebook", title |-> title,
                   description |-> description]
       /\ IF notebook.kind = "raise"
          THEN /\ ret' = Raised("ClientError")
               /\ client_calls' = << CreateCall(title, notebook) >>
               /\ UNCHANGED notebook_id
          ELSE IF CreateFails(notebook)
          THEN /\ ret' = Raised("RuntimeError")
               /\ client_calls' = << CreateCall(title, notebook) >>
               /\ UNCHANGED notebook_id
          ELSE /\ notebook_id' = Some(notebook.id)
               /\ client_calls' =
                     << CreateCall(title, notebook) >>
                     \o (IF description # EmptyStr
                         THEN add_index_source(Some(notebook.id), description,
                                               result)
                         ELSE <<>>)
               /\ ret' = IF /\ description # EmptyStr
                            /\ result.kind = "raise"
                            /\ IndexSourcePropagates(result)
                         THEN Raised("ClientError")
                         ELSE Ok(notebook.id, <<>>)
       /\ UNCHANGED navigation

\* the check of notebook_id left out
NotebookMissing_Skipped(nid) == FALSE

\* "if not self.notebook_id: raise RuntimeError" of add_source_with_metadata
NotebookMissing(nid) == ~Truthy(nid)

\* the two tests in the other order
SourceBranch_UrlFirst(source_url, source_text) ==
    IF Truthy(source_url) THEN "url"
    ELSE IF Truthy(source_text) THEN "text"
    ELSE "neither"

\* the branch of "if source_text: ... elif source_url: ... else: raise"
SourceBranch(source_url, source_text) ==
    IF Truthy(source_text) THEN "text"
    ELSE IF Truthy(source_url) THEN "url"
    ELSE "neither"

\* the ValueError raised only after the section was registered
RegistersSection_NoValidation(branch, result) == result.kind # "raise"

\* the client's exception swallowed instead of re-raised
RegistersSection_AfterRaise(branch, result) == branch # "neither"

\* does control reach "self.navigation.add_section" after the branch: not
\* after the ValueError, not after a re-raised exception of the client
RegistersSection(branch, result) ==
    branch # "neither" /\ result.kind # "raise"

\* section_id or metadata.title.lower().replace(" ", "_")
SectionIdFor(section_id, metadata) ==
    IF Truthy(section_id) THEN section_id[1] ELSE Slug(metadata.title)

\* keywords=metadata.tags + [metadata.category]
KeywordsFor(metadata) == metadata.tags \o <<metadata.category>>

\* NotebookTemplate.add_source_with_metadata
AddSourceWithMetadata ==
    \E metadata \in Metadatas, source_url \in Urls, source_text \in Texts,
       section_id \in OptSectionIds, result \in ClientResults :
       LET metadata_prefix == format_metadata_prefix(metadata)
           branch == SourceBranch(source_url, source_text)
           registered ==
               add_section(navigation, SectionIdFor(section_id, metadata),
                           metadata.title, metadata.description,
                           KeywordsFor(metadata), None, Some(metadata))
           source_id == IF DictTruthy(result)
                        THEN SourceIdOf(result, metadata)
                        ELSE FallbackSourceId(metadata)
       IN
       /\ call' = [op |-> "add_source_with_metadata", metadata |-> metadata,
                   source_url |-> source_url, source_text |-> source_text,
                   section_id |-> section_id]
       /\ UNCHANGED notebook_id
       /\ IF NotebookMissing(notebook_id)
          THEN /\ ret' = Raised("RuntimeError")
               /\ client_calls' = <<>>
               /\ UNCHANGED navigation
          ELSE /\ client_calls' =
                     IF branch = "text"
                     THEN << TextCall(notebook_id,
                                      metadata_prefix \o <<"\n", "\n">>
                                          \o source_text[1],
                                      metadata.title, result) >>
                     ELSE IF branch = "url"
                     THEN << UrlCall(notebook_id, source_url[1],
                                     metadata.title, result) >>
                     ELSE <<>>
               /\ ret' = IF branch = "neither" THEN Raised("ValueError")
                         ELSE IF result.kind = "raise"
                         THEN Raised("ClientError")
                         ELSE Ok(source_id, <<>>)
               /\ IF RegistersSection(branch, result)
                  THEN /\ Len(navigation.nodes) < MaxSections
                       /\ navigation' = registered
                  ELSE UNCHANGED navigation

\* the two spaces of one level of indentation, level times
Indent(level) == [i \in 1..(2 * level) |-> " "]

\* the lines format_node appends for the node itself
NodeLines(node, level) ==
    << Indent(level) \o <<"- **">> \o node.title \o <<"** (">>
       \o node.section_id \o <<")">> >>
    \o (IF node.description # EmptyStr
        THEN << Indent(level) \o <<" ", " ">> \o node.description >>
        ELSE <<>>)
    \o (IF node.keywords # <<>>
        THEN << Indent(level) \o <<" ", " ">> \o <<"Keywords: ">>
                \o Join(<<",", " ">>, node.keywords) >>
        ELSE <<>>)
    \o << EmptyStr >>

RECURSIVE format_nodes_ChildrenFirst(_, _, _)
\* the children rendered before their parent
format_nodes_ChildrenFirst(nav, nodes, level) ==
    IF nodes = <<>> THEN <<>>
    ELSE format_nodes_ChildrenFirst(nav, nav.nodes[Head(nodes)].children,
                                    level + 1)
         \o << [node |-> Head(nodes), level |-> level] >>
         \o format_nodes_ChildrenFirst(nav, Tail(nodes), level)

RECURSIVE format_nodes(_, _, _)
\* the calls of format_node, in order, that "for node in nodes:
\* format_node(node, level)" makes: each node, then its children one level
\* deeper, then the next node
format_nodes(nav, nodes, level) ==
    IF nodes = <<>> THEN <<>>
    ELSE << [node |-> Head(nodes), level |-> level] >>
         \o format_nodes(nav, nav.nodes[Head(nodes)].children, level + 1)
         \o format_nodes(nav, Tail(nodes), level)

RECURSIVE Flatten(_)
\* the concatenation of a sequence of sequences
Flatten(seqs) ==
    IF seqs = <<>> THEN <<>> ELSE Head(seqs) \o Flatten(Tail(seqs))

\* the first element of lines in get_navigation_summary
SummaryHeader == <<"# Notebook navigation map", "\n">>

\* NotebookTemplate.get_navigation_summary
get_navigation_summary(nav) ==
    LET visits == format_nodes(nav, nav.root_nodes, 0)
        lines == << SummaryHeader >>
                 \o Flatten([i \in 1..Len(visits) |->
                               NodeLines(nav.nodes[visits[i].node],
                                         visits[i].level)])
    IN Join(<<"\n">>, lines)

\* ret.nodes: the nodes in the order format_node rendered them
GetNavigationSummary ==
    /\ call' = [op |-> "get_navigation_summary"]
    /\ ret' = Ok(get_navigation_summary(navigation),
                 LET visits == format_nodes(navigation,
                                            navigation.root_nodes, 0)
                 IN [i \in 1..Len(visits) |-> visits[i].node])
    /\ client_calls' = <<>>
    /\ UNCHANGED <<navigation, notebook_id>>

\* NavigationMap.add_section, with the arguments of the hierarchy scenarios
TreeAddSection ==
    /\ Len(navigation.nodes) < MaxTreeSections
    /\ \E section_id \in SectionIds, content \in TreeContents,
          parent_id \in ParentIds :
          /\ navigation' = add_section(navigation, section_id, content.title,
                                       content.description, content.keywords,
                                       parent_id, None)
          /\ call' = [op |-> "add_section", section_id |-> section_id,
                      title |-> content.title,
                      description |-> content.description,
                      keywords |-> content.keywords, parent_id |-> parent_id]
          /\ ret' = Ok(EmptyStr, <<Len(navigation.nodes) + 1>>)
    /\ client_calls' = <<>>
    /\ UNCHANGED notebook_id

NextTree ==
    \/ TreeAddSection
    \/ GetNavigationSummary

SpecTree == Init /\ [][NextTree]_vars

\* NotebookTemplate._format_metadata_prefix, called on its own
FormatMetadataPrefix ==
    /\ \E metadata \in FormatMetadatas :
          /\ call' = [op |-> "format_metadata_prefix", metadata |-> metadata]
          /\ ret' = Ok(format_metadata_prefix(metadata), <<>>)
    /\ client_calls' = <<>>
    /\ UNCHANGED <<navigation, notebook_id>>

NextFormat == FormatMetadataPrefix

SpecFormat == Init /\ [][NextFormat]_vars

-----------------------------------------------------------------------------
(* Config and save_answer_as_note *)

\* str.isspace() of one character
IsSpace(c) == c = " " \/ c = "\n" \/ c = "\t"

RECURSIVE LStrip(_)
\* str.lstrip()
LStrip(s) ==
    IF s # <<>> /\ IsSpace(Head(s)) THEN LStrip(Tail(s)) ELSE s

RECURSIVE RStrip(_)
\* str.rstrip()
RStrip(s) ==
    IF s # <<>> /\ IsSpace(s[Len(s)])
    THEN RStrip(SubSeq(s, 1, Len(s) - 1)) ELSE s

\* str.strip()
Strip(s) == RStrip(LStrip(s))

\* s[:n] for n >= 0
Slice(s, n) == IF n < Len(s) THEN SubSeq(s, 1, n) ELSE s

\* the test ">=" instead of ">"
get_note_title_AtLimit(config, question) ==
    LET question_clean == Strip(question)
        question_title ==
            IF Len(question_clean) >= config.note_max_title_length
            THEN Slice(question_clean, config.note_max_title_length)
                 \o <<".", ".", ".">>
            ELSE question_clean
    IN config.note_prefix \o <<" ">> \o question_title

\* Config.get_note_title
get_note_title(config, question) ==
    LET question_clean == Strip(question)
        question_title ==
            IF Len(question_clean) > config.note_max_title_length
            THEN Slice(question_clean, config.note_max_title_length)
                 \o <<".", ".", ".">>
            ELSE question_clean
    IN config.note_prefix \o <<" ">> \o question_title

\* get_note_title reads no state and leaves none: one call from the
\* initial state is every case
GetNoteTitle ==
    /\ call = NoCall
    /\ \E config \in Configs, question \in NoteQuestions :
          /\ call' = [op |-> "get_note_title", config |-> config,
                      question |-> question]
          /\ ret' = Ok(get_note_title(config, question), <<>>)
    /\ client_calls' = <<>>
    /\ UNCHANGED <<navigation, notebook_id>>

\* s.split(' ', 1)[1] of a string that contains a space
AfterFirstSpace(s) ==
    LET first == CHOOSE i \in 1..Len(s) :
                     s[i] = " " /\ \A j \in 1..(i - 1) : s[j] # " "
    IN SubSeq(s, first + 1, Len(s))

\* the title save_answer_as_note gives the note
note_title_of(config, question, note_prefix) ==
    LET note_title == get_note_title(config, question)
    IN IF Truthy(note_prefix)
       THEN note_prefix[1] \o <<" ">>
            \o (IF \E i \in 1..Len(note_title) : note_title[i] = " "
                THEN AfterFirstSpace(note_title) ELSE note_title)
       ELSE note_title

\* f"""Question: {question}\n\n{answer}"""
full_note_text(question, answer) ==
    <<"Question: ">> \o question \o <<"\n", "\n">> \o answer

\* result.get('sourceId') or result.get('id') or
\* result.get('source', {}).get('id'): "" stands for None
NoteSourceId(result) ==
    IF "sourceId" \in DOMAIN result.dict /\ result.dict["sourceId"] # EmptyStr
    THEN result.dict["sourceId"]
    ELSE IF "id" \in DOMAIN result.dict /\ result.dict["id"] # EmptyStr
         THEN result.dict["id"]
         ELSE EmptyStr

\* save_answer_as_note with a client: ret.str is the returned id, "" for
\* None; the config is the one get_config() returns.  It reads no state
\* and leaves none: one call from the initial state is every case
SaveAnswerAsNote ==
    /\ call = NoCall
    /\ \E config \in Configs, nid \in NotebookIds, question \in NoteQuestions,
          answer \in Answers, note_prefix \in NotePrefixes,
          result \in ClientResults :
          /\ call' = [op |-> "save_answer_as_note", config |-> config,
                      notebook_id |-> nid, question |-> question,
                      answer |-> answer, note_prefix |-> note_prefix]
          /\ client_calls' =
                << TextCall(Some(nid), full_note_text(question, answer),
                            note_title_of(config, question, note_prefix),
                            result) >>
          /\ ret' = IF DictTruthy(result)
                    THEN Ok(NoteSourceId(result), <<>>)
                    ELSE Ok(EmptyStr, <<>>)
    /\ UNCHANGED <<navigation, notebook_id>>

NextNote ==
    \/ GetNoteTitle
    \/ SaveAnswerAsNote

SpecNote == Init /\ [][NextNote]_vars

NextTpl ==
    \/ CreateNotebook
    \/ AddSourceWithMetadata

SpecTpl == Init /\ [][NextTpl]_vars

-----------------------------------------------------------------------------
(* Properties *)

Range(f) == { f[i] : i \in DOMAIN f }

Min(S) == CHOOSE x \in S : \A y \in S : x <= y

\* the nodes that were added with a keyword equal to keyword up to case
AddedWithKeyword(keyword) ==
    { n \in 1..Len(navigation.nodes) :
        \E i \in 1..Len(navigation.nodes[n].keywords) :
            Lower(navigation.nodes[n].keywords[i]) = Lower(keyword) }

\* C1: find_sections_by_keyword(k') returns every node that was added with a
\* keyword equal to k' up to letter case, after any sequence of add_section
\* calls.
C1_EverySectionFoundByItsKeywords ==
    call.op = "find_sections_by_keyword" =>
        AddedWithKeyword(call.keyword) \subseteq Range(ret.nodes)

IsAddSource == call.op = "add_source_with_metadata"

\* C2: with a notebook, add_source_with_metadata with neither source_text
\* nor source_url raises ValueError, leaves the navigation map as it was and
\* makes no call on the client.
C2_NeitherSourceIsValidationFailure ==
    [][ ( /\ call'.op = "add_source_with_metadata"
          /\ Truthy(notebook_id)
          /\ ~Truthy(call'.source_text)
          /\ ~Truthy(call'.source_url) )
        => ( /\ ret'.status = "ValueError"
             /\ navigation' = navigation
             /\ client_calls' = <<>> ) ]_vars

C2_Witness ==
    /\ IsAddSource
    /\ Truthy(notebook_id)
    /\ ~Truthy(call.source_text)
    /\ ~Truthy(call.source_url)
    /\ ret.status = "ValueError"
    /\ navigation.nodes # <<>>

\* C3: without a notebook (notebook_id unset), add_source_with_metadata
\* fails whatever its arguments, makes no call on the client and leaves the
\* navigation map as it was.
C3_NoNotebookIsPreconditionFailure ==
    [][ ( /\ call'.op = "add_source_with_metadata"
          /\ notebook_id = None )
        => ( /\ ret'.status = "RuntimeError"
             /\ navigation' = navigation
             /\ client_calls' = <<>> ) ]_vars

C3_Witness ==
    /\ IsAddSource
    /\ notebook_id = None
    /\ Truthy(call.source_text)
    /\ ret.status = "RuntimeError"

\* C4: create_notebook raises RuntimeError when the client returns no
\* notebook, and then notebook_id keeps its value and no source is
\* ingested; notebook_id changes only in a create_notebook that returns the
\* new id.
C4_CreationFailureKeepsNotebookId ==
    [][ /\ ( ( /\ call'.op = "create_notebook"
               /\ client_calls'[1].result.kind = "none" )
             => ( /\ ret'.status = "RuntimeError"
                  /\ notebook_id' = notebook_id
                  /\ Len(client_calls') = 1 ) )
        /\ ( notebook_id' # notebook_id
             => ( /\ call'.op = "create_notebook"
                  /\ ret'.status = "ok"
                  /\ client_calls'[1].result.kind = "notebook"
                  /\ notebook_id' = Some(ret'.str) ) ) ]_vars

C4_Witness ==
    /\ call.op = "create_notebook"
    /\ client_calls[1].result.kind = "none"
    /\ ret.status = "RuntimeError"
    /\ notebook_id # None

\* C5: when the client creates the notebook and description is non-empty,
\* create_notebook returns the new id and sets notebook_id to it whatever
\* the ingestion of the description did (raised, None, a dict).
C5_DescriptionFailureNotPropagated ==
    ( /\ call.op = "create_notebook"
      /\ call.description # EmptyStr
      /\ client_calls[1].result.kind = "notebook" )
    => ( /\ ret = Ok(client_calls[1].result.id, <<>>)
         /\ notebook_id = Some(client_calls[1].result.id)
         /\ Len(client_calls) = 2
         /\ client_calls[2].method = "add_text_source"
         /\ client_calls[2].content = call.description )

C5_Witness ==
    /\ call.op = "create_notebook"
    /\ call.description # EmptyStr
    /\ Len(client_calls) = 2
    /\ client_calls[2].result.kind = "raise"
    /\ ret.status = "ok"

\* the id the claim gives a section: section_id if given, else the title in
\* lower case with "_" for " "
ExpectedSectionId(section_id, title) ==
    IF section_id # None /\ section_id[1] # EmptyStr THEN section_id[1]
    ELSE [i \in 1..Len(title) |->
             IF title[i] = " " THEN "_" ELSE LowerChar(title[i])]

\* C6: after an add_source_with_metadata whose ingestion returned a result,
\* exactly one node is new; it is the last root, has no children, has the
\* id section_id or else the slug of the title, the title and description
\* of the metadata, and the keywords tags followed by category.
C6_SectionRegisteredAfterIngestion ==
    [][ ( /\ call'.op = "add_source_with_metadata"
          /\ client_calls' # <<>>
          /\ client_calls'[1].result.kind = "dict" )
        => LET m == call'.metadata
               n == Len(navigation.nodes) + 1
               sid == ExpectedSectionId(call'.section_id, m.title)
           IN /\ ret'.status = "ok"
              /\ navigation'.nodes =
                     Append(navigation.nodes,
                            [ section_id |-> sid,
                              title |-> m.title,
                              description |-> m.description,
                              keywords |-> m.tags \o <<m.category>>,
                              children |-> <<>>,
                              source_metadata |-> Some(m) ])
              /\ navigation'.root_nodes = Append(navigation.root_nodes, n)
              /\ navigation'.section_index[sid] = n ]_vars

C6_Witness ==
    /\ IsAddSource
    /\ client_calls # <<>>
    /\ client_calls[1].result.kind = "dict"
    /\ ~Truthy(call.section_id)
    /\ call.metadata.title = <<"A", " ", "b">>
    /\ Len(navigation.nodes) = 2
    /\ navigation.nodes[2].section_id = <<"a", "_", "b">>

\* C7: with a non-empty source_text and a non-empty source_url a notebook's
\* add_source_with_metadata makes exactly one call, add_text_source with
\* text prefix + blank line + source_text and title metadata.title.
C7_TextPathWinsOverUrl ==
    ( /\ IsAddSource
      /\ Truthy(notebook_id)
      /\ Truthy(call.source_text)
      /\ Truthy(call.source_url) )
    => ( /\ Len(client_calls) = 1
         /\ client_calls[1].method = "add_text_source"
         /\ client_calls[1].notebook_id = notebook_id
         /\ client_calls[1].title = call.metadata.title
         /\ client_calls[1].content =
                format_metadata_prefix(call.metadata) \o <<"\n", "\n">>
                \o call.source_text[1] )

C7_Witness ==
    /\ IsAddSource
    /\ Truthy(notebook_id)
    /\ Truthy(call.source_text)
    /\ Truthy(call.source_url)
    /\ ret.status = "ok"
    /\ client_calls[1].method = "add_text_source"

\* C8: add_section never fails and registers the new node under its
\* section_id; with a parent_id that is a key of section_index the node is
\* appended to that parent's children and root_nodes stays; otherwise the
\* node is appended to root_nodes and to no node's children.
C8_UnresolvedParentFallsBackToRoot ==
    [][ call'.op = "add_section"
        => LET n == Len(navigation.nodes) + 1
               p == call'.parent_id
               old == navigation.nodes
               new == navigation'.nodes
           IN /\ ret' = Ok(EmptyStr, <<n>>)
              /\ Len(new) = n
              /\ new[n].children = <<>>
              /\ navigation'.section_index[call'.section_id] = n
              /\ IF p # None /\ p[1] \in DOMAIN navigation.section_index
                 THEN LET parent == navigation.section_index[p[1]]
                      IN /\ navigation'.root_nodes = navigation.root_nodes
                         /\ new[parent].children =
                                Append(old[parent].children, n)
                         /\ \A m \in 1..Len(old) :
                               m # parent => new[m].children = old[m].children
                 ELSE /\ navigation'.root_nodes =
                            Append(navigation.root_nodes, n)
                      /\ \A m \in 1..Len(old) :
                            new[m].children = old[m].children ]_vars

C8_Witness ==
    /\ call.op = "add_section"
    /\ call.parent_id # None
    /\ Len(navigation.nodes) = 2
    /\ navigation.root_nodes = <<1, 2>>
    /\ navigation.section_index[call.section_id] = 2

\* C9: generate_navigation_query(topic) is the generic phrasing exactly when
\* find_sections_by_keyword(topic) is empty, and otherwise the scoped
\* phrasing with the title of the first node that was added with that
\* keyword.
C9_QueryNamesFirstIndexedSection ==
    call.op = "generate_navigation_query" =>
        IF find_sections_by_keyword(navigation, call.topic) = <<>>
        THEN ret.str = <<"Find information about ">> \o call.topic
        ELSE /\ AddedWithKeyword(call.topic) # {}
             /\ ret.str =
                   <<"In section '">>
                   \o navigation.nodes[Min(AddedWithKeyword(call.topic))].title
                   \o <<"' find information about ">> \o call.topic

IsResolved(sid) == sid \in DOMAIN navigation.section_index

\* C10: build_multi_section_query never fails; it returns question itself
\* when no id of section_ids is a key of section_index, and otherwise "In
\* sections", the quoted titles of the resolved ids in the order of
\* section_ids joined by ", ", "find:" and the question.
C10_MultiSectionQueryDegrades ==
    call.op = "build_multi_section_query" =>
        LET resolved == SelectSeq(call.section_ids, IsResolved)
            named == [i \in 1..Len(resolved) |->
                        <<"'">>
                        \o navigation.nodes[
                               navigation.section_index[resolved[i]]].title
                        \o <<"'">>]
        IN /\ ret.status = "ok"
           /\ IF resolved = <<>>
              THEN ret.str = call.question
              ELSE ret.str = <<"In sections ">> \o Join(<<",", " ">>, named)
                             \o <<" find: ">> \o call.question

C10_Witness ==
    /\ call.op = "build_multi_section_query"
    /\ Len(call.section_ids) = 2
    /\ Len(SelectSeq(call.section_ids, IsResolved)) = 1
    /\ ret.str # call.question


\* C11: build_section_query never fails; with a section_hint that is a key
\* of section_index it returns the phrasing with the title of that section
\* and the question; with no section_hint or an unresolved one it returns
\* what generate_navigation_query returns for the whole question.
C11_SectionQueryFallsBackToNavigation ==
    call.op = "build_section_query" =>
        LET hint == call.section_hint
        IN /\ ret.status = "ok"
           /\ IF hint # None /\ hint[1] \in DOMAIN navigation.section_index
              THEN ret.str =
                      <<"In section '">>
                      \o navigation.nodes[
                             navigation.section_index[hint[1]]].title
                      \o <<"' find: ">> \o call.question
              ELSE ret.str = generate_navigation_query(navigation,
                                                       call.question)

C11_Witness ==
    /\ call.op = "build_section_query"
    /\ call.section_hint # None
    /\ call.section_hint[1] \notin DOMAIN navigation.section_index
    /\ navigation.nodes # <<>>
    /\ ret.str[1] = "In section '"


\* C13: in every state every section id held in a value of keyword_index is
\* a key of section_index, so find_sections_by_keyword skips no id: its
\* result is as long as keyword_index[keyword.lower()].
C13_KeywordIndexIdsAreRegistered ==
    /\ \A k \in DOMAIN navigation.keyword_index :
          Range(navigation.keyword_index[k])
              \subseteq DOMAIN navigation.section_index
    /\ call.op = "find_sections_by_keyword" =>
          Len(ret.nodes) =
              IF Lower(call.keyword) \in DOMAIN navigation.keyword_index
              THEN Len(navigation.keyword_index[Lower(call.keyword)])
              ELSE 0

C13_Witness ==
    /\ call.op = "find_sections_by_keyword"
    /\ call.keyword = <<"K">>
    /\ Len(ret.nodes) = 2
    /\ ret.nodes[1] = ret.nodes[2]


\* C17: every node find_sections_by_keyword(k) returns was added with a
\* keyword equal to k up to letter case, also after add_section calls that
\* reuse a section id.
C17_FoundSectionsHaveTheKeyword ==
    call.op = "find_sections_by_keyword" =>
        Range(ret.nodes) \subseteq AddedWithKeyword(call.keyword)


\* the rendering calls of the summary of the current map
Visits == format_nodes(navigation, navigation.root_nodes, 0)

\* the position after the last visit below visit i
SubtreeEnd(E, i) ==
    Min({ j \in (i + 1)..(Len(E) + 1) :
            j = Len(E) + 1 \/ E[j].level <= E[i].level })

\* the nodes of the visits of E from position from to position to that are
\* at level level, in order
NodesAtLevel(E, from, to, level) ==
    LET AtLevel(e) == e.level = level
        sel == SelectSeq(SubSeq(E, from, to), AtLevel)
    IN [k \in 1..Len(sel) |-> sel[k].node]

\* the lines the claim gives a node at a level
ExpectedNodeLines(n, level) ==
    LET node == navigation.nodes[n]
        indent == [i \in 1..(level + level) |-> " "]
    IN << indent \o <<"- **">> \o node.title \o <<"** (">>
          \o node.section_id \o <<")">> >>
       \o (IF node.description = EmptyStr THEN <<>>
           ELSE << indent \o <<" ", " ">> \o node.description >>)
       \o (IF node.keywords = <<>> THEN <<>>
           ELSE << indent \o <<" ", " ", "Keywords: ">>
                   \o Join(<<",", " ">>, node.keywords) >>)
       \o << EmptyStr >>

\* C12: get_navigation_summary renders the roots in the order of root_nodes
\* at level 0 and, right after every node, its children in the order of
\* children, one level deeper; the text is the header and the lines of the
\* nodes in that order, and it does not depend on section_index or
\* keyword_index.
C12_SummaryIsPreOrder ==
    call.op = "get_navigation_summary" =>
        LET E == Visits
        IN /\ NodesAtLevel(E, 1, Len(E), 0) = navigation.root_nodes
           /\ \A i \in 1..Len(E) :
                 /\ NodesAtLevel(E, i + 1, SubtreeEnd(E, i) - 1,
                                 E[i].level + 1)
                        = navigation.nodes[E[i].node].children
                 /\ \A j \in (i + 1)..(SubtreeEnd(E, i) - 1) :
                       E[j].level > E[i].level
           /\ ret.nodes = [i \in 1..Len(E) |-> E[i].node]
           /\ ret.str =
                 Join(<<"\n">>,
                      << <<"# Notebook navigation map", "\n">> >>
                      \o Flatten([i \in 1..Len(E) |->
                                    ExpectedNodeLines(E[i].node, E[i].level)]))
           /\ ret.str =
                 get_navigation_summary(
                     [navigation EXCEPT !.section_index = <<>>,
                                        !.keyword_index = <<>>])

C12_Witness ==
    /\ call.op = "get_navigation_summary"
    /\ navigation.root_nodes = <<1>>
    /\ navigation.nodes[1].children = <<2, 3>>
    /\ ret.nodes = <<1, 2, 3>>

\* how many times x occurs in the sequence s
Count(s, x) == Cardinality({ i \in 1..Len(s) : s[i] = x })

RECURSIVE SumChildren(_, _)
\* how many times x occurs in the children of the nodes 1..m
SumChildren(m, x) ==
    IF m = 0 THEN 0
    ELSE Count(navigation.nodes[m].children, x) + SumChildren(m - 1, x)

\* C18: after any add_section calls the hierarchy is a forest: every node
\* created is held exactly once, by root_nodes or by the children of one
\* older node, so it is reached from root_nodes by exactly one path, and
\* get_navigation_summary renders every node exactly once.
C18_HierarchyIsForest ==
    /\ \A n \in 1..Len(navigation.nodes) :
          /\ Count(navigation.root_nodes, n)
               + SumChildren(Len(navigation.nodes), n) = 1
          /\ \A c \in Range(navigation.nodes[n].children) :
                c > n /\ c <= Len(navigation.nodes)
    /\ Range(navigation.root_nodes) \subseteq 1..Len(navigation.nodes)
    /\ call.op = "get_navigation_summary" =>
          /\ Len(ret.nodes) = Len(navigation.nodes)
          /\ \A n \in 1..Len(navigation.nodes) : Count(ret.nodes, n) = 1

C18_Witness ==
    /\ call.op = "get_navigation_summary"
    /\ Len(navigation.nodes) = 3
    /\ navigation.nodes[1].section_id = navigation.nodes[2].section_id
    /\ navigation.nodes[1].children = <<2>>
    /\ navigation.nodes[2].children = <<3>>
    /\ ret.nodes = <<1, 2, 3>>


\* C16: when add_text_source or add_url_source returns None for an
\* add_source_with_metadata call, the call fails and no section is
\* registered in the navigation map.
C16_NoResultIsIngestionFailure ==
    [][ ( /\ call'.op = "add_source_with_metadata"
          /\ client_calls' # <<>>
          /\ client_calls'[1].result.kind = "none" )
        => ( /\ ret'.status # "ok"
             /\ navigation' = navigation ) ]_vars

\* C19: when add_text_source or add_url_source raises during
\* add_source_with_metadata, the call raises that error and the navigation
\* map and notebook_id are as before the call.
C19_ClientErrorLeavesIndexUnchanged ==
    [][ ( /\ call'.op = "add_source_with_metadata"
          /\ client_calls' # <<>>
          /\ client_calls'[1].result.kind = "raise" )
        => ( /\ ret'.status = "ClientError"
             /\ navigation' = navigation
             /\ notebook_id' = notebook_id ) ]_vars

C19_Witness ==
    /\ IsAddSource
    /\ client_calls # <<>>
    /\ client_calls[1].method = "add_url_source"
    /\ client_calls[1].result.kind = "raise"
    /\ ret.status = "ClientError"
    /\ navigation.nodes # <<>>


\* the question portion the claim as written gives a title: the question cut
\* at the limit
CutQuestion(question, limit) ==
    IF Len(question) > limit
    THEN SubSeq(question, 1, limit) \o <<".", ".", ".">>
    ELSE question

\* the question without its leading and trailing whitespace
Trimmed(question) ==
    LET inner == { i \in 1..Len(question) :
                     question[i] \notin {" ", "\n", "\t"} }
    IN IF inner = {} THEN EmptyStr
       ELSE SubSeq(question, Min(inner),
                   CHOOSE i \in inner : \A j \in inner : j <= i)

\* C14 as written: the question portion of the title is the first
\* note_max_title_length characters of the question and the ellipsis when
\* the question is longer than the limit, and the question otherwise.
C14_TitleCutsQuestion ==
    call.op = "get_note_title" =>
        ret.str = call.config.note_prefix \o <<" ">>
                  \o CutQuestion(call.question,
                                 call.config.note_max_title_length)

\* C14: the question portion of the title is the first
\* note_max_title_length characters of the question without its leading and
\* trailing whitespace and the ellipsis when that trimmed question is longer
\* than the limit, and the trimmed question otherwise.
C14_TitleCutsTrimmedQuestion ==
    call.op = "get_note_title" =>
        ret.str = call.config.note_prefix \o <<" ">>
                  \o CutQuestion(Trimmed(call.question),
                                 call.config.note_max_title_length)

C14_Witness ==
    /\ call.op = "get_note_title"
    /\ call.question = <<" ", "x", "y">>
    /\ call.config.note_max_title_length = 1
    /\ ret.str = call.config.note_prefix \o <<" ", "x", ".", ".", ".">>

\* C20 as written: with a note_prefix, save_answer_as_note submits a note
\* whose title is note_prefix, one space and the question portion, whatever
\* the configured prefix is.
C20_CustomPrefixReplacesConfigured ==
    ( /\ call.op = "save_answer_as_note"
      /\ call.note_prefix # None
      /\ call.note_prefix[1] # EmptyStr )
    => ( /\ Len(client_calls) = 1
         /\ client_calls[1].title =
               call.note_prefix[1] \o <<" ">>
               \o CutQuestion(Trimmed(call.question),
                              call.config.note_max_title_length) )


RECURSIVE SplitLines(_)
\* the lines of a text: the pieces between its newline characters
SplitLines(text) ==
    LET breaks == { i \in 1..Len(text) : text[i] = "\n" }
    IN IF breaks = {} THEN << text >>
       ELSE << SubSeq(text, 1, Min(breaks) - 1) >>
            \o SplitLines(SubSeq(text, Min(breaks) + 1, Len(text)))

\* C15: the prefix has the lines title, category, source type, then the tags
\* line exactly when tags is non-empty, the description line exactly when
\* description is non-empty, the related-sections line exactly when
\* related_sections is non-empty, then the separator line, in this order,
\* each with its field's content.
C15_PrefixLinesInFixedOrder ==
    call.op = "format_metadata_prefix" =>
        LET m == call.metadata
            expected ==
                << <<"# ">> \o m.title,
                   <<"**Category:** ">> \o m.category,
                   <<"**Type:** ">> \o m.source_type >>
                \o (IF m.tags = <<>> THEN <<>>
                    ELSE << <<"**Tags:** ">> \o Join(<<",", " ">>, m.tags) >>)
                \o (IF m.description = EmptyStr THEN <<>>
                    ELSE << <<"**Description:** ">> \o m.description >>)
                \o (IF m.related_sections = <<>> THEN <<>>
                    ELSE << <<"**Related sections:** ">>
                            \o Join(<<",", " ">>, m.related_sections) >>)
                \o << <<"---">>, EmptyStr >>
        IN SplitLines(ret.str) = expected

C15_Witness ==
    /\ call.op = "format_metadata_prefix"
    /\ call.metadata.tags = <<>>
    /\ call.metadata.description # EmptyStr
    /\ call.metadata.related_sections # <<>>
    /\ Len(SplitLines(ret.str)) = 7

=============================================================================
